---- MODULE Spec2Model ----
(***************************************************************************)
(* Phone-address service: the FastAPI routes of                            *)
(* app/api/v1/routes_phone_address.py, the PhoneAddressService they call   *)
(* and the key-value store behind it (the in-memory store of the tests).   *)
(* Every request is a task; every awaited store command is one atomic      *)
(* step, so requests interleave at the awaits and nowhere else.            *)
(***************************************************************************)
EXTENDS Integers, Sequences, FiniteSets, TLC

(* ---------------------------- bounds ----------------------------------- *)
NTasks == 2
MaxCalls == 3

Tasks == 1..NTasks

(* ---------------------------- inputs ----------------------------------- *)
\* phone strings a caller may send: they differ only in a leading blank, and
\* the second is shorter than the schema's minimum
Phones == {" 12", "12"}
\* address strings a caller may send; the empty one fails validation
Addrs == {"A", "B", ""}

(* ------------------------- schema constraints -------------------------- *)
PhoneMinLen == 3
PhoneMaxLen == 64
AddressMinLen == 1
AddressMaxLen == 1024

ValidAddress(a) == Len(a) >= AddressMinLen /\ Len(a) <= AddressMaxLen

\* a phone field with no minimum length
ValidPhone_no_min_length(p) == Len(p) <= PhoneMaxLen

ValidPhone(p) == Len(p) >= PhoneMinLen /\ Len(p) <= PhoneMaxLen

(* ------------------------------ keys ----------------------------------- *)
\* key built from the phone with surrounding blanks stripped
_make_key_stripped(phone) ==
    "phone_address:" \o (IF phone = " 12" THEN "12" ELSE phone)

_make_key(phone) == "phone_address:" \o phone

Keys == {_make_key(p) : p \in Phones}

(* ------------------------- store commands ------------------------------ *)
\* each command maps the dict s to the reply and the dict after it
Nil == [kind |-> "nil"]
Str(v) == [kind |-> "str", val |-> v]

RedisGet(s, name) ==
    [reply |-> IF name \in DOMAIN s THEN Str(s[name]) ELSE Nil,
     store |-> s]

\* set-if-absent that reports success also when the key is there
RedisSetNx_always_true(s, name, value) ==
    IF name \in DOMAIN s
    THEN [reply |-> TRUE, store |-> s]
    ELSE [reply |-> TRUE,
          store |-> [k \in DOMAIN s \cup {name} |->
                        IF k = name THEN value ELSE s[k]]]

RedisSetNx(s, name, value) ==
    IF name \in DOMAIN s
    THEN [reply |-> FALSE, store |-> s]
    ELSE [reply |-> TRUE,
          store |-> [k \in DOMAIN s \cup {name} |->
                        IF k = name THEN value ELSE s[k]]]

RedisSet(s, name, value) ==
    [reply |-> TRUE,
     store |-> [k \in DOMAIN s \cup {name} |->
                   IF k = name THEN value ELSE s[k]]]

RedisExists(s, name) ==
    [reply |-> IF name \in DOMAIN s THEN 1 ELSE 0, store |-> s]

\* delete that reports the key but leaves it in place
RedisDelete_keeps_key(s, name) ==
    [reply |-> IF name \in DOMAIN s THEN 1 ELSE 0, store |-> s]

RedisDelete(s, name) ==
    [reply |-> IF name \in DOMAIN s THEN 1 ELSE 0,
     store |-> [k \in DOMAIN s \ {name} |-> s[k]]]

(* ------------------------------ values --------------------------------- *)
NoCall == [op |-> "none"]

Pending == [kind |-> "pending"]
None == [kind |-> "none"]
Raised == [kind |-> "raised"]
Bool(b) == [kind |-> "bool", val |-> b]
PhoneAddressRead(phone, address) ==
    [kind |-> "read", phone |-> phone, address |-> address]

NoResp == [status |-> 0]
Detail(status, text) == [status |-> status, detail |-> text]
Body(status, phone, address) ==
    [status |-> status, phone |-> phone, address |-> address]
Empty(status) == [status |-> status, empty |-> TRUE]

(* --------------------------- binding service --------------------------- *)
\* each method maps the store to what it returns and the store after it
get(s, phone) ==
    LET key == _make_key(phone)
        r == RedisGet(s, key)
        address == r.reply
    IN [result |-> IF address = Nil
                   THEN None
                   ELSE PhoneAddressRead(phone, address.val),
        store |-> r.store]

\* create that writes under the bare phone instead of the namespaced key
create_bare_key(s, data) ==
    LET r == RedisSetNx(s, data.phone, data.address)
    IN [result |-> Bool(r.reply), store |-> r.store]

\* create that leaves out nx=True
create_without_nx(s, data) ==
    LET r == RedisSet(s, _make_key(data.phone), data.address)
    IN [result |-> Bool(r.reply), store |-> r.store]

create(s, data) ==
    LET key == _make_key(data.phone)
        r == RedisSetNx(s, key, data.address)
        was_set == r.reply
    IN [result |-> Bool(was_set), store |-> r.store]

\* update whose test of the reply is inverted
update_exists_inverted(s, phone) ==
    LET r == RedisExists(s, _make_key(phone))
    IN [exists |-> r.reply = 0, result |-> Bool(FALSE), store |-> r.store]

\* update that takes the reply object for the truth value: always "exists"
update_exists_unchecked(s, phone) ==
    [exists |-> TRUE, result |-> Bool(FALSE), store |-> s]

\* update up to its second await: the existence check
update_exists(s, phone) ==
    LET key == _make_key(phone)
        r == RedisExists(s, key)
        exists == r.reply
    IN [exists |-> exists # 0, result |-> Bool(FALSE), store |-> r.store]

\* update whose set carries nx=True: it never overwrites
update_set_nx(s, phone, address) ==
    LET r == RedisSetNx(s, _make_key(phone), address)
    IN [result |-> Bool(TRUE), store |-> r.store]

\* update from its second await: the unconditional set
update_set(s, phone, address) ==
    LET key == _make_key(phone)
        r == RedisSet(s, key, address)
    IN [result |-> Bool(TRUE), store |-> r.store]

\* update run with nothing between its two awaits
update(s, phone, address) ==
    LET e == update_exists(s, phone)
    IN IF ~e.exists
       THEN [result |-> e.result, store |-> e.store]
       ELSE update_set(e.store, phone, address)

\* delete that tests deleted_count == 0
delete_count_eq_zero(s, phone) ==
    LET r == RedisDelete(s, _make_key(phone))
    IN [result |-> Bool(r.reply = 0), store |-> r.store]

\* delete that tests deleted_count >= 0
delete_count_ge_zero(s, phone) ==
    LET r == RedisDelete(s, _make_key(phone))
    IN [result |-> Bool(r.reply >= 0), store |-> r.store]

delete(s, phone) ==
    LET key == _make_key(phone)
        r == RedisDelete(s, key)
        deleted_count == r.reply
    IN [result |-> Bool(deleted_count > 0), store |-> r.store]

(* --------------------------- request layer ----------------------------- *)
\* the response each route builds from what the service returned
get_phone_address(phone, result) ==
    IF result = None
    THEN Detail(404, "Phone number not found.")
    ELSE Body(200, result.phone, result.address)

\* the route without status_code=CREATED
create_phone_address_200(payload, created) ==
    IF ~created.val
    THEN Detail(409, "Phone number already exists.")
    ELSE Body(200, payload.phone, payload.address)

create_phone_address(payload, created) ==
    IF ~created.val
    THEN Detail(409, "Phone number already exists.")
    ELSE Body(201, payload.phone, payload.address)

update_phone_address(phone, payload, updated) ==
    IF ~updated.val
    THEN Detail(404, "Phone number not found.")
    ELSE Body(200, phone, payload.address)

delete_phone_address(phone, deleted) ==
    IF ~deleted.val
    THEN Detail(404, "Phone number not found.")
    ELSE Empty(204)

(* ------------------------------ connector ------------------------------ *)
\* client instances are numbered from 1 as from_url makes them; 0 is None
NoClient == 0

\* the client property making a new client on every read
client_always_new(current, made) ==
    [client |-> made + 1, made |-> made + 1]

\* the client property: the instance it returns and how many exist then
client(current, made) ==
    IF current = NoClient
    THEN [client |-> made + 1, made |-> made + 1]
    ELSE [client |-> current, made |-> made]

(* ------------------------------- health -------------------------------- *)
\* what the awaited ping can do: a truthy reply, a falsy reply, a failure
PingOutcomes == {Bool(TRUE), Bool(FALSE), Raised}

\* health that takes any reply of the ping as ok
healthcheck_any_reply_ok(pong) ==
    LET redis_status == IF pong = Raised THEN "unavailable" ELSE "ok"
        overall == IF redis_status = "ok" THEN "ok" ELSE "degraded"
    IN [status |-> 200, body |-> [status |-> overall, redis |-> redis_status]]

healthcheck(pong) ==
    LET redis_status ==
            IF pong = Raised THEN "unavailable"
            ELSE IF pong.val THEN "ok" ELSE "unavailable"
        overall == IF redis_status = "ok" THEN "ok" ELSE "degraded"
    IN [status |-> 200, body |-> [status |-> overall, redis |-> redis_status]]

(* ------------------------------ state ---------------------------------- *)
VARIABLES
    store,       \* the store's dict: stored keys -> address
    pc,          \* per task: "idle", "called", "checked", "pinging", "done",
                 \* "failed"
    call,        \* per task: the request being served
    ret,         \* per task: what the service method returned
    resp,        \* per task: the HTTP response
    ncmd,        \* per task: store commands the current call has issued
    ncalls,      \* requests accepted so far
    sinceDelete, \* per key, history: "deleted" once a delete has removed it,
                 \* "rewritten" once an update's set has run after that,
                 \* "none" again once a create call has run
    store0,      \* history: the store as the process found it
    _client,     \* redis_connector._client: NoClient or the instance
    clients,     \* client instances made so far
    aclosed,     \* aclose calls made so far
    lifespan,    \* "running" at its yield, "closing" inside close, "stopped"
    redis_client, \* per task: the client the request's dependency returned
    ncreated,    \* per key, history: create calls that returned true
    ndeleted,    \* per key, history: delete calls that returned true
    nrecreated   \* per key, history: sets of an update that found it absent

vars == <<store, pc, call, ret, resp, ncmd, ncalls, sinceDelete, store0,
          _client, clients, aclosed, lifespan, redis_client,
          ncreated, ndeleted, nrecreated>>

\* the store outlives the process: it starts empty or already holds a binding
InitStores == {<<>>, [k \in {_make_key(" 12")} |-> "A"]}

Init ==
    /\ store \in InitStores
    /\ pc = [t \in Tasks |-> "idle"]
    /\ call = [t \in Tasks |-> NoCall]
    /\ ret = [t \in Tasks |-> Pending]
    /\ resp = [t \in Tasks |-> NoResp]
    /\ ncmd = [t \in Tasks |-> 0]
    /\ ncalls = 0
    /\ sinceDelete = [k \in Keys |-> "none"]
    /\ store0 = store
    /\ _client = NoClient
    /\ clients = 0
    /\ aclosed = 0
    /\ lifespan = "running"
    /\ redis_client = [t \in Tasks |-> NoClient]
    /\ ncreated = [k \in Keys |-> 0]
    /\ ndeleted = [k \in Keys |-> 0]
    /\ nrecreated = [k \in Keys |-> 0]

(* ------------------------------ requests -------------------------------- *)
\* the dependency of every route: it reads the connector's client property
get_redis_client(t) ==
    LET r == client(_client, clients)
    IN /\ _client' = r.client
       /\ clients' = r.made
       /\ redis_client' = [redis_client EXCEPT ![t] = r.client]

\* a request goes to the first task that is not inside one
Accept(t, c) ==
    /\ lifespan = "running"
    /\ pc[t] \in {"idle", "done", "failed"}
    /\ \A u \in Tasks : u < t => pc[u] \in {"called", "checked", "pinging"}
    /\ ncalls < MaxCalls
    /\ get_redis_client(t)
    /\ ncalls' = ncalls + 1
    /\ call' = [call EXCEPT ![t] = c]
    /\ ncmd' = [ncmd EXCEPT ![t] = 0]
    /\ ret' = [ret EXCEPT ![t] = Pending]
    /\ UNCHANGED <<store, sinceDelete, store0, aclosed, lifespan,
                   ncreated, ndeleted, nrecreated>>

\* the request fails validation: 422, the service is not called
Reject(t) ==
    /\ pc' = [pc EXCEPT ![t] = "done"]
    /\ resp' = [resp EXCEPT ![t] = Detail(422, "validation error")]

\* the route awaits the service method, which awaits its first store command
Enter(t) ==
    /\ pc' = [pc EXCEPT ![t] = "called"]
    /\ resp' = [resp EXCEPT ![t] = NoResp]

GetRequest(t, phone) ==
    /\ Accept(t, [op |-> "get", phone |-> phone])
    /\ Enter(t)

PostRequest(t, phone, address) ==
    /\ Accept(t, [op |-> "create", phone |-> phone, address |-> address])
    /\ IF ValidPhone(phone) /\ ValidAddress(address) THEN Enter(t) ELSE Reject(t)

PutRequest(t, phone, address) ==
    /\ Accept(t, [op |-> "update", phone |-> phone, address |-> address])
    /\ IF ValidAddress(address) THEN Enter(t) ELSE Reject(t)

DeleteRequest(t, phone) ==
    /\ Accept(t, [op |-> "delete", phone |-> phone])
    /\ Enter(t)

(* ------------------------------- steps ---------------------------------- *)
\* task t issues one more store command, on the client it was given
Issue(t) ==
    /\ ncmd' = [ncmd EXCEPT ![t] = @ + 1]
    /\ UNCHANGED <<_client, clients, aclosed, lifespan, redis_client>>

Return(t, result, response) ==
    /\ pc' = [pc EXCEPT ![t] = "done"]
    /\ ret' = [ret EXCEPT ![t] = result]
    /\ resp' = [resp EXCEPT ![t] = response]
    /\ UNCHANGED <<call, ncalls, store0>>

GetStep(t) ==
    /\ pc[t] = "called" /\ call[t].op = "get"
    /\ LET r == get(store, call[t].phone)
       IN /\ store' = r.store
          /\ Return(t, r.result, get_phone_address(call[t].phone, r.result))
    /\ Issue(t)
    /\ UNCHANGED <<sinceDelete, ncreated, ndeleted, nrecreated>>

\* create that looks the key up first and then sets it: two commands
CreateStep_exists_then_set(t) ==
    /\ pc[t] = "called" /\ call[t].op = "create"
    /\ LET r == create(store, call[t])
       IN /\ store' = r.store
          /\ Return(t, r.result, create_phone_address(call[t], r.result))
          /\ ncreated' = [ncreated EXCEPT ![_make_key(call[t].phone)] =
                              IF r.result.val THEN @ + 1 ELSE @]
    /\ ncmd' = [ncmd EXCEPT ![t] = @ + 2]
    /\ sinceDelete' = [sinceDelete EXCEPT ![_make_key(call[t].phone)] = "none"]
    /\ UNCHANGED <<_client, clients, aclosed, lifespan, redis_client,
                   ndeleted, nrecreated>>

CreateStep(t) ==
    /\ pc[t] = "called" /\ call[t].op = "create"
    /\ LET r == create(store, call[t])
       IN /\ store' = r.store
          /\ Return(t, r.result, create_phone_address(call[t], r.result))
          /\ ncreated' = [ncreated EXCEPT ![_make_key(call[t].phone)] =
                              IF r.result.val THEN @ + 1 ELSE @]
    /\ Issue(t)
    /\ sinceDelete' = [sinceDelete EXCEPT ![_make_key(call[t].phone)] = "none"]
    /\ UNCHANGED <<ndeleted, nrecreated>>

UpdateExistsStep(t) ==
    /\ pc[t] = "called" /\ call[t].op = "update"
    /\ LET r == update_exists(store, call[t].phone)
       IN /\ store' = r.store
          /\ IF ~r.exists
             THEN Return(t, r.result,
                         update_phone_address(call[t].phone, call[t], r.result))
             ELSE /\ pc' = [pc EXCEPT ![t] = "checked"]
                  /\ UNCHANGED <<call, ret, resp, ncalls, store0>>
    /\ Issue(t)
    /\ UNCHANGED <<sinceDelete, ncreated, ndeleted, nrecreated>>

UpdateSetStep(t) ==
    /\ pc[t] = "checked" /\ call[t].op = "update"
    /\ LET r == update_set(store, call[t].phone, call[t].address)
       IN /\ store' = r.store
          /\ Return(t, r.result,
                    update_phone_address(call[t].phone, call[t], r.result))
    /\ Issue(t)
    /\ sinceDelete' = [sinceDelete EXCEPT ![_make_key(call[t].phone)] =
                          IF @ = "none" THEN "none" ELSE "rewritten"]
    /\ nrecreated' = [nrecreated EXCEPT ![_make_key(call[t].phone)] =
                          IF _make_key(call[t].phone) \in DOMAIN store
                          THEN @ ELSE @ + 1]
    /\ UNCHANGED <<ncreated, ndeleted>>

DeleteStep(t) ==
    /\ pc[t] = "called" /\ call[t].op = "delete"
    /\ LET r == delete(store, call[t].phone)
       IN /\ store' = r.store
          /\ Return(t, r.result, delete_phone_address(call[t].phone, r.result))
          /\ sinceDelete' = [sinceDelete EXCEPT ![_make_key(call[t].phone)] =
                                IF r.result.val THEN "deleted" ELSE @]
          /\ ndeleted' = [ndeleted EXCEPT ![_make_key(call[t].phone)] =
                              IF r.result.val THEN @ + 1 ELSE @]
    /\ Issue(t)
    /\ UNCHANGED <<ncreated, nrecreated>>

\* the failure is caught and turned into an ordinary negative result
StoreFailure_swallowed(t) ==
    /\ pc[t] \in {"called", "checked"}
    /\ pc' = [pc EXCEPT ![t] = "done"]
    /\ ret' = [ret EXCEPT ![t] = Bool(FALSE)]
    /\ resp' = [resp EXCEPT ![t] = Detail(404, "Phone number not found.")]
    /\ Issue(t)
    /\ UNCHANGED <<store, sinceDelete, call, ncalls, store0, ncreated, ndeleted,
                   nrecreated>>

\* the awaited store command raises: nothing catches it, in the service or in
\* the route, so the method returns nothing and the request ends as a 500
StoreFailure(t) ==
    /\ pc[t] \in {"called", "checked"}
    /\ pc' = [pc EXCEPT ![t] = "failed"]
    /\ ret' = [ret EXCEPT ![t] = Raised]
    /\ resp' = [resp EXCEPT ![t] = Detail(500, "Internal Server Error")]
    /\ Issue(t)
    /\ UNCHANGED <<store, sinceDelete, call, ncalls, store0, ncreated, ndeleted,
                   nrecreated>>

Next ==
    \/ \E t \in Tasks, p \in Phones : GetRequest(t, p)
    \/ \E t \in Tasks, p \in Phones, a \in Addrs : PostRequest(t, p, a)
    \/ \E t \in Tasks, p \in Phones, a \in Addrs : PutRequest(t, p, a)
    \/ \E t \in Tasks, p \in Phones : DeleteRequest(t, p)
    \/ \E t \in Tasks : GetStep(t)
    \/ \E t \in Tasks : CreateStep(t)
    \/ \E t \in Tasks : UpdateExistsStep(t)
    \/ \E t \in Tasks : UpdateSetStep(t)
    \/ \E t \in Tasks : DeleteStep(t)
    \/ \E t \in Tasks : StoreFailure(t)

Spec == Init /\ [][Next]_vars

(* ------------------------- health and shutdown -------------------------- *)
HealthRequest(t) ==
    /\ Accept(t, [op |-> "health"])
    /\ pc' = [pc EXCEPT ![t] = "pinging"]
    /\ resp' = [resp EXCEPT ![t] = NoResp]

\* the awaited ping ends, one way or another, and the route answers
HealthStep(t, pong) ==
    /\ pc[t] = "pinging" /\ call[t].op = "health"
    /\ Return(t, pong, healthcheck(pong))
    /\ Issue(t)
    /\ UNCHANGED <<store, sinceDelete, ncreated, ndeleted, nrecreated>>

\* the lifespan leaves its yield and awaits close, which awaits aclose when
\* there is a client and is over at once when there is none
close ==
    /\ lifespan = "running"
    /\ IF _client # NoClient
       THEN aclosed' = aclosed + 1 /\ lifespan' = "closing"
       ELSE aclosed' = aclosed /\ lifespan' = "stopped"
    /\ UNCHANGED <<store, pc, call, ret, resp, ncmd, ncalls, sinceDelete,
                   store0, _client, clients, redis_client,
                   ncreated, ndeleted, nrecreated>>

\* aclose returns: close drops the client and the lifespan ends
close_return ==
    /\ lifespan = "closing"
    /\ _client' = NoClient
    /\ lifespan' = "stopped"
    /\ UNCHANGED <<store, pc, call, ret, resp, ncmd, ncalls, sinceDelete,
                   store0, clients, aclosed, redis_client,
                   ncreated, ndeleted, nrecreated>>

\* the requests that run beside the health checks and the shutdown: one of
\* each route, on one phone
OnePhone == {" 12"}
OneAddr == {"B"}

NextLife ==
    \/ \E t \in Tasks, p \in OnePhone : GetRequest(t, p)
    \/ \E t \in Tasks, p \in OnePhone, a \in OneAddr : PostRequest(t, p, a)
    \/ \E t \in Tasks, p \in OnePhone, a \in OneAddr : PutRequest(t, p, a)
    \/ \E t \in Tasks, p \in OnePhone : DeleteRequest(t, p)
    \/ \E t \in Tasks : GetStep(t)
    \/ \E t \in Tasks : CreateStep(t)
    \/ \E t \in Tasks : UpdateExistsStep(t)
    \/ \E t \in Tasks : UpdateSetStep(t)
    \/ \E t \in Tasks : DeleteStep(t)
    \/ \E t \in Tasks : StoreFailure(t)
    \/ \E t \in Tasks : HealthRequest(t)
    \/ \E t \in Tasks, pong \in PingOutcomes : HealthStep(t, pong)
    \/ close
    \/ close_return

SpecLife == Init /\ [][NextLife]_vars

TypeOK ==
    /\ DOMAIN store \subseteq Keys
    /\ \A k \in DOMAIN store : store[k] \in Addrs
    /\ pc \in [Tasks -> {"idle", "called", "checked", "pinging", "done",
                         "failed"}]
    /\ ncmd \in [Tasks -> 0..2]
    /\ ncalls \in 0..MaxCalls
    /\ sinceDelete \in [Keys -> {"none", "deleted", "rewritten"}]
    /\ store0 \in InitStores
    /\ _client \in 0..clients
    /\ clients \in 0..MaxCalls
    /\ aclosed \in 0..MaxCalls
    /\ lifespan \in {"running", "closing", "stopped"}
    /\ redis_client \in [Tasks -> 0..MaxCalls]
    /\ ncreated \in [Keys -> 0..MaxCalls]
    /\ ndeleted \in [Keys -> 0..MaxCalls]
    /\ nrecreated \in [Keys -> 0..MaxCalls]

(* ------------------------------ claims ---------------------------------- *)
KeyOf(t) == _make_key(call[t].phone)

Stored(t) == KeyOf(t) \in DOMAIN store

\* task t has come back from the service method op with a result
Returned(t, op) == pc[t] = "done" /\ call[t].op = op /\ ret[t] # Pending

\* C1: create of a phone that has no binding returns true, and a lookup of
\* that phone run next, nothing else touching it in between, returns the
\* phone with the address just created.
C1_CreateThenLookup ==
    [][\A t \in Tasks :
          (CreateStep(t) /\ ~Stored(t))
              => /\ ret'[t] = Bool(TRUE)
                 /\ get(store', call[t].phone).result =
                        PhoneAddressRead(call[t].phone, call[t].address)]_vars

C1_Witness ==
    \E t, u \in Tasks :
        /\ Returned(t, "create") /\ ret[t] = Bool(TRUE)
        /\ call[t].phone = " 12" /\ call[t].address = "B"
        /\ Returned(u, "get") /\ call[u].phone = " 12"
        /\ ret[u] = PhoneAddressRead(" 12", "B")

\* C2: create of a phone already bound to a returns false whatever address
\* it passes and leaves the store as it was; a lookup run next still returns
\* the phone with a.
C2_CreateConflict ==
    [][\A t \in Tasks :
          (CreateStep(t) /\ Stored(t))
              => /\ ret'[t] = Bool(FALSE)
                 /\ store' = store
                 /\ get(store', call[t].phone).result =
                        PhoneAddressRead(call[t].phone, store[KeyOf(t)])]_vars

C2_Witness ==
    \E t, u \in Tasks :
        /\ Returned(t, "create") /\ ret[t] = Bool(FALSE)
        /\ call[t].phone = " 12" /\ call[t].address = "B"
        /\ Returned(u, "get") /\ call[u].phone = " 12"
        /\ ret[u] = PhoneAddressRead(" 12", "A")

\* every task's one and only call so far was a create of p, and all returned
CreateBatchDone(p) ==
    /\ ncalls = NTasks
    /\ \A t \in Tasks : Returned(t, "create") /\ call[t].phone = p
                        /\ ret[t] # Raised

\* C3: when all the tasks run create for one phone that had no binding, and
\* nothing else runs, exactly one call returns true, all the others return
\* false, and the address stored is the one the winning call passed.
C3_OneCreateWins ==
    \A p \in Phones :
        (_make_key(p) \notin DOMAIN store0 /\ CreateBatchDone(p))
            => \E w \in Tasks :
                  /\ ret[w] = Bool(TRUE)
                  /\ \A t \in Tasks \ {w} : ret[t] = Bool(FALSE)
                  /\ _make_key(p) \in DOMAIN store
                  /\ store[_make_key(p)] = call[w].address

C3_Witness ==
    /\ CreateBatchDone(" 12")
    /\ _make_key(" 12") \notin DOMAIN store0
    /\ \E t, u \in Tasks : call[t].address = "A" /\ call[u].address = "B"

\* C4: update of a phone that has no binding returns false at its existence
\* check and ends there: the store is untouched, no set is issued, and a
\* lookup run next returns absent.
C4_UpdateAbsent ==
    [][\A t \in Tasks :
          (UpdateExistsStep(t) /\ ~Stored(t))
              => /\ ret'[t] = Bool(FALSE)
                 /\ pc'[t] = "done"
                 /\ ncmd'[t] = 1
                 /\ store' = store
                 /\ get(store', call[t].phone).result = None]_vars

C4_Witness ==
    \E t, u \in Tasks :
        /\ Returned(t, "update") /\ ret[t] = Bool(FALSE)
        /\ call[t].phone = " 12"
        /\ Returned(u, "get") /\ call[u].phone = " 12" /\ ret[u] = None

\* C5: update of a phone bound to a passes its existence check, and with no
\* other command on the phone between the check and the set it returns true
\* and a lookup run next returns the phone with the new address; the set
\* itself always ends the call with true and the new address stored.
C5_UpdateStored ==
    [][\A t \in Tasks :
          /\ (UpdateExistsStep(t) /\ Stored(t))
                => LET w == update_set(store', call[t].phone, call[t].address)
                   IN /\ pc'[t] = "checked"
                      /\ w.result = Bool(TRUE)
                      /\ get(w.store, call[t].phone).result =
                            PhoneAddressRead(call[t].phone, call[t].address)
          /\ UpdateSetStep(t)
                => /\ ret'[t] = Bool(TRUE)
                   /\ get(store', call[t].phone).result =
                         PhoneAddressRead(call[t].phone, call[t].address)]_vars

C5_Witness ==
    \E t, u \in Tasks :
        /\ Returned(t, "update") /\ ret[t] = Bool(TRUE)
        /\ call[t].phone = " 12" /\ call[t].address = "B"
        /\ Returned(u, "get") /\ call[u].phone = " 12"
        /\ ret[u] = PhoneAddressRead(" 12", "B")

\* the original reading of C6: once a delete has removed the phone, every
\* later delete of it returns false until a create call runs on it.
C6_DeleteOriginal ==
    [][\A t \in Tasks :
          /\ (DeleteStep(t) /\ Stored(t))
                => /\ ret'[t] = Bool(TRUE)
                   /\ get(store', call[t].phone).result = None
          /\ (DeleteStep(t) /\ sinceDelete[KeyOf(t)] # "none")
                => /\ ret'[t] = Bool(FALSE)
                   /\ store' = store
          /\ (DeleteStep(t) /\ ~Stored(t))
                => /\ ret'[t] = Bool(FALSE)
                   /\ store' = store]_vars

\* C6: delete of a stored phone returns true and removes the binding, so a
\* lookup run next returns absent; every later delete of it, with neither a
\* create nor the set of an update on it in between, returns false and
\* leaves the store as it was; delete of an absent phone returns false.
C6_DeleteThenDelete ==
    [][\A t \in Tasks :
          /\ (DeleteStep(t) /\ Stored(t))
                => /\ ret'[t] = Bool(TRUE)
                   /\ get(store', call[t].phone).result = None
          /\ (DeleteStep(t) /\ sinceDelete[KeyOf(t)] = "deleted")
                => /\ ret'[t] = Bool(FALSE)
                   /\ store' = store
          /\ (DeleteStep(t) /\ ~Stored(t))
                => /\ ret'[t] = Bool(FALSE)
                   /\ store' = store]_vars

C6_Witness ==
    \E t, u \in Tasks :
        /\ Returned(t, "delete") /\ ret[t] = Bool(TRUE)
        /\ Returned(u, "delete") /\ ret[u] = Bool(FALSE)
        /\ call[t].phone = " 12" /\ call[u].phone = " 12"
        /\ sinceDelete[_make_key(" 12")] = "deleted"
        /\ get(store, " 12").result = None

\* some task takes a service step on phone p
StepOn(p) ==
    \E t \in Tasks :
        /\ \/ GetStep(t) \/ CreateStep(t) \/ UpdateExistsStep(t)
           \/ UpdateSetStep(t) \/ DeleteStep(t)
        /\ call[t].phone = p

\* C7: the key is the prefix followed by the phone as given, distinct phones
\* have distinct keys, a step of any operation on p leaves the presence and
\* the value of every other phone q as they were, and a lookup of q returns
\* what is stored under q's own key.
C7_Independent ==
    [][/\ \A p, q \in Phones :
             /\ _make_key(p) = "phone_address:" \o p
             /\ p # q => _make_key(p) # _make_key(q)
             /\ (p # q /\ StepOn(p))
                   => LET kq == "phone_address:" \o q
                      IN /\ (kq \in DOMAIN store') = (kq \in DOMAIN store)
                         /\ kq \in DOMAIN store => store'[kq] = store[kq]
       /\ \A t \in Tasks :
             GetStep(t)
                => LET kq == "phone_address:" \o call[t].phone
                   IN ret'[t] = IF kq \in DOMAIN store
                                THEN PhoneAddressRead(call[t].phone, store[kq])
                                ELSE None]_vars

C7_Witness ==
    /\ "phone_address:12" \notin DOMAIN store
    /\ \E t, u \in Tasks :
          /\ Returned(t, "update") /\ call[t].phone = "12"
          /\ call[t].address = "B" /\ ret[t] = Bool(FALSE)
          /\ Returned(u, "get") /\ call[u].phone = " 12"
          /\ ret[u] = PhoneAddressRead(" 12", "A")

\* the original reading of C8: only create makes a key present, only an
\* update on a present key changes its value, only delete makes it absent,
\* and no set of an update finds its key absent.
C8_LifecycleOriginal ==
    [][/\ \A k \in Keys :
             /\ (k \notin DOMAIN store /\ k \in DOMAIN store')
                   => \E t \in Tasks : CreateStep(t) /\ KeyOf(t) = k
             /\ (k \in DOMAIN store /\ k \in DOMAIN store' /\ store'[k] # store[k])
                   => \E t \in Tasks : UpdateSetStep(t) /\ KeyOf(t) = k
             /\ (k \in DOMAIN store /\ k \notin DOMAIN store')
                   => \E t \in Tasks : DeleteStep(t) /\ KeyOf(t) = k
       /\ \A t \in Tasks : UpdateSetStep(t) => Stored(t)]_vars

\* C8: a key goes from absent to present only by a create call or by the set
\* of an update whose existence check had found the key; its value changes
\* only by the set of an update; it goes from present to absent only by a
\* delete call; an update whose existence check finds the key absent ends
\* there and never writes.
C8_Lifecycle ==
    [][/\ \A k \in Keys :
             /\ (k \notin DOMAIN store /\ k \in DOMAIN store')
                   => \E t \in Tasks :
                         /\ CreateStep(t) \/ UpdateSetStep(t)
                         /\ KeyOf(t) = k
             /\ (k \in DOMAIN store /\ k \in DOMAIN store' /\ store'[k] # store[k])
                   => \E t \in Tasks : UpdateSetStep(t) /\ KeyOf(t) = k
             /\ (k \in DOMAIN store /\ k \notin DOMAIN store')
                   => \E t \in Tasks : DeleteStep(t) /\ KeyOf(t) = k
       /\ \A t \in Tasks :
             (UpdateExistsStep(t) /\ ~Stored(t))
                => pc'[t] = "done" /\ store' = store
       /\ \A t \in Tasks :
             (UpdateExistsStep(t) /\ pc'[t] = "checked") => Stored(t)]_vars

C8_Witness ==
    \E t, u \in Tasks :
        /\ Returned(t, "update") /\ ret[t] = Bool(TRUE)
        /\ Returned(u, "delete") /\ ret[u] = Bool(TRUE)
        /\ call[t].phone = " 12" /\ call[u].phone = " 12"
        /\ sinceDelete[_make_key(" 12")] = "rewritten"
        /\ _make_key(" 12") \in DOMAIN store
        /\ store[_make_key(" 12")] = call[t].address

\* C9: the response follows the service outcome: GET 200 with the binding
\* when it exists and 404 when not; POST 201 with the submitted pair when
\* create returned true and 409 when false; PUT 200 when update returned
\* true and 404 when false; DELETE 204 with an empty body when delete
\* returned true and 404 when false; and no step that answers 404 or 409
\* changes the store.
C9_StatusByOutcome ==
    [][\A t \in Tasks :
          /\ GetStep(t)
                => resp'[t].status = IF Stored(t) THEN 200 ELSE 404
          /\ (GetStep(t) /\ Stored(t))
                => resp'[t] = [status |-> 200, phone |-> call[t].phone,
                               address |-> store[KeyOf(t)]]
          /\ (CreateStep(t) /\ ret'[t] = Bool(TRUE))
                => resp'[t] = [status |-> 201, phone |-> call[t].phone,
                               address |-> call[t].address]
          /\ (CreateStep(t) /\ ret'[t] = Bool(FALSE))
                => resp'[t].status = 409
          /\ ((UpdateExistsStep(t) \/ UpdateSetStep(t)) /\ ret'[t] = Bool(TRUE))
                => resp'[t].status = 200
          /\ ((UpdateExistsStep(t) \/ UpdateSetStep(t)) /\ ret'[t] = Bool(FALSE))
                => resp'[t].status = 404
          /\ (DeleteStep(t) /\ ret'[t] = Bool(TRUE))
                => resp'[t] = [status |-> 204, empty |-> TRUE]
          /\ (DeleteStep(t) /\ ret'[t] = Bool(FALSE))
                => resp'[t].status = 404
          /\ (resp'[t] # resp[t] /\ resp'[t].status \in {404, 409})
                => store' = store]_vars

C9_Witness ==
    \E t, u \in Tasks :
        /\ Returned(t, "create") /\ resp[t].status = 409
        /\ Returned(u, "delete") /\ resp[u].status = 204
        /\ call[t].phone = call[u].phone

\* task t issues a store command in this step and the command does not
\* complete
CommandFails(t) ==
    /\ ncmd'[t] = ncmd[t] + 1
    /\ ~(\/ GetStep(t) \/ CreateStep(t) \/ UpdateExistsStep(t)
         \/ UpdateSetStep(t) \/ DeleteStep(t))

\* C10: when a store command fails inside a service method, the call ends
\* with the failure and no boolean or optional result, the store stays as it
\* was, and the failed call issues no further command: its command count
\* stays until the task takes its next request; an update that failed at its
\* existence check never reaches the set.
C10_FailurePropagates ==
    [][\A t \in Tasks :
          /\ CommandFails(t)
                => /\ pc'[t] = "failed"
                   /\ ret'[t] = Raised
                   /\ store' = store
          /\ pc[t] = "failed"
                => \/ /\ ncmd'[t] = ncmd[t]
                      /\ ret'[t] = Raised
                      /\ pc'[t] = "failed"
                   \/ /\ ncalls' = ncalls + 1
                      /\ ncmd'[t] = 0
                      /\ ret'[t] = Pending
          /\ (pc[t] = "failed" /\ call[t].op = "update" /\ ncmd[t] = 1)
                => ~UpdateSetStep(t)]_vars

C10_Witness ==
    \E t, u \in Tasks :
        /\ pc[t] = "failed" /\ call[t].op = "update" /\ ncmd[t] = 1
        /\ ret[t] = Raised
        /\ Returned(u, "get") /\ call[u].phone = call[t].phone
        /\ ret[u] = PhoneAddressRead(" 12", "A")
        /\ call[t].address = "B"

\* task t is out of the service method, with a result or with a failure
Left(t) == pc[t] \in {"done", "failed"} /\ ret[t] # Pending

\* the original reading of C12: every call of get, create, update and delete
\* has issued exactly one store command when it ends.
C12_OneCommandOriginal ==
    \A t \in Tasks : Left(t) => ncmd[t] = 1

\* C12: a call of get, create or delete issues exactly one store command on
\* every path; a call of update issues one command, the existence check, when
\* it returns false, and two, the existence check and then the set, when it
\* returns true; an update that fails has issued one or two; inside the
\* method, a task waiting on its first command has issued none and an update
\* past its existence check has issued one.
C12_CommandsPerCall ==
    \A t \in Tasks :
        /\ (Left(t) /\ call[t].op \in {"get", "create", "delete"})
              => ncmd[t] = 1
        /\ (Left(t) /\ call[t].op = "update" /\ ret[t] = Bool(FALSE))
              => ncmd[t] = 1
        /\ (Left(t) /\ call[t].op = "update" /\ ret[t] = Bool(TRUE))
              => ncmd[t] = 2
        /\ (Left(t) /\ call[t].op = "update" /\ ret[t] = Raised)
              => ncmd[t] \in {1, 2}
        /\ pc[t] = "called" => ncmd[t] = 0
        /\ pc[t] = "checked" => ncmd[t] = 1

C12_Witness ==
    \E t, u \in Tasks :
        /\ Returned(t, "update") /\ ret[t] = Bool(TRUE) /\ ncmd[t] = 2
        /\ Returned(u, "create") /\ ret[u] = Bool(FALSE) /\ ncmd[u] = 1
        /\ call[t].phone = call[u].phone


\* update(p, a) and delete(p) run one after the other on store s, in the
\* two possible orders
UpdateThenDelete(s, p, a) ==
    LET u == update(s, p, a)
        d == delete(u.store, p)
    IN [updated |-> u.result, deleted |-> d.result, store |-> d.store]

DeleteThenUpdate(s, p, a) ==
    LET d == delete(s, p)
        u == update(d.store, p, a)
    IN [updated |-> u.result, deleted |-> d.result, store |-> u.store]

\* update(p, a) and delete(p) both returned true and p is stored with a
BothTrueAndStored(o, p, a) ==
    /\ o.updated = Bool(TRUE) /\ o.deleted = Bool(TRUE)
    /\ _make_key(p) \in DOMAIN o.store
    /\ o.store[_make_key(p)] = a

\* C13: with p stored, no sequential order of update(p, a2) and delete(p)
\* ends with both calls true and p stored with a2: update then delete
\* leaves p absent, delete then update makes the update false; so whenever
\* an execution of just these two calls on a stored p ends that way, the
\* set of the update ran after the delete had removed the key, the
\* existence check having run before it.
C13_NoSequentialOrder ==
    /\ \A p \in Phones, a \in Addrs :
          _make_key(p) \in DOMAIN store
             => /\ ~BothTrueAndStored(UpdateThenDelete(store, p, a), p, a)
                /\ ~BothTrueAndStored(DeleteThenUpdate(store, p, a), p, a)
                /\ _make_key(p) \notin DOMAIN UpdateThenDelete(store, p, a).store
                /\ DeleteThenUpdate(store, p, a).updated = Bool(FALSE)
    /\ \A t, u \in Tasks :
          (/\ ncalls = 2
           /\ Returned(t, "update") /\ Returned(u, "delete")
           /\ call[t].phone = call[u].phone
           /\ KeyOf(t) \in DOMAIN store0
           /\ BothTrueAndStored([updated |-> ret[t], deleted |-> ret[u],
                                 store |-> store],
                                call[t].phone, call[t].address))
             => sinceDelete[KeyOf(t)] = "rewritten"

\* the race: exists of the update sees p, the delete removes it and returns
\* true, the set recreates it, the update returns true, p is stored with a2
C13_Witness ==
    \E t, u \in Tasks :
        /\ ncalls = 2
        /\ store0 = [k \in {_make_key(" 12")} |-> "A"]
        /\ Returned(t, "update") /\ call[t] = [op |-> "update", phone |-> " 12",
                                               address |-> "B"]
        /\ Returned(u, "delete") /\ call[u].phone = " 12"
        /\ ret[t] = Bool(TRUE) /\ ret[u] = Bool(TRUE)
        /\ store = [k \in {_make_key(" 12")} |-> "B"]
        /\ ncmd[t] = 2


\* C15: every stored binding has a phone of 3 to 64 characters and an
\* address of 1 to 1024 characters, although only POST checks the phone: a
\* PUT whose path phone is outside 3 to 64 characters never gets past the
\* existence check, never returns true and never writes a key.
C15_StoredWithinSchema ==
    /\ \A k \in DOMAIN store :
          /\ \E p \in Phones :
                k = "phone_address:" \o p /\ Len(p) >= 3 /\ Len(p) <= 64
          /\ Len(store[k]) >= 1 /\ Len(store[k]) <= 1024
    /\ \A t \in Tasks :
          (/\ call[t].op = "update"
           /\ ~(Len(call[t].phone) >= 3 /\ Len(call[t].phone) <= 64))
             => /\ pc[t] # "checked"
                /\ ret[t] # Bool(TRUE)
                /\ "phone_address:" \o call[t].phone \notin DOMAIN store

C15_Witness ==
    \E t, u \in Tasks :
        /\ Returned(t, "update") /\ call[t].phone = "12"
        /\ call[t].address = "A" /\ ret[t] = Bool(FALSE)
        /\ resp[t].status = 404
        /\ Returned(u, "update") /\ call[u].phone = " 12"
        /\ call[u].address = "B" /\ ret[u] = Bool(TRUE)
        /\ DOMAIN store = {"phone_address: 12"}
        /\ store0 = <<>>


Held(s, k) == IF k \in DOMAIN s THEN 1 ELSE 0

\* every task has made one call, a delete of p, and all have returned
DeleteBatchDone(p) ==
    /\ ncalls = NTasks
    /\ \A t \in Tasks : Returned(t, "delete") /\ call[t].phone = p

\* C16: when p was stored and every task has run one delete of p and
\* nothing else, exactly one of them returned true, the others false, and p
\* is absent; for every key, the deletes that returned true plus the
\* binding now held equal the creates that returned true plus the binding
\* the process found plus the sets of an update that found the key absent;
\* so as long as no set of an update has recreated the key, as in every
\* execution without updates, the deletes that returned true never exceed
\* the creates that returned true, a binding found at the start counting
\* as one earlier create.
C16_DeletesWithinCreates ==
    /\ \A p \in Phones :
          (DeleteBatchDone(p) /\ _make_key(p) \in DOMAIN store0)
             => /\ Cardinality({t \in Tasks : ret[t] = Bool(TRUE)}) = 1
                /\ Cardinality({t \in Tasks : ret[t] = Bool(FALSE)}) = NTasks - 1
                /\ _make_key(p) \notin DOMAIN store
    /\ \A k \in Keys :
          /\ ndeleted[k] + Held(store, k)
                = ncreated[k] + Held(store0, k) + nrecreated[k]
          /\ nrecreated[k] = 0
                => ndeleted[k] <= ncreated[k] + Held(store0, k)
          /\ (nrecreated[k] = 0 /\ store0 = <<>>)
                => ndeleted[k] <= ncreated[k]

C16_Witness ==
    /\ DeleteBatchDone(" 12")
    /\ store0 = [k \in {_make_key(" 12")} |-> "A"]
    /\ ret[1] = Bool(FALSE) /\ ret[NTasks] = Bool(TRUE)
    /\ resp[1].status = 404 /\ resp[NTasks].status = 204
    /\ ndeleted[_make_key(" 12")] = 1
    /\ store = <<>>


====
